---- MODULE Spec2Model ----
(***************************************************************************)
(* A model of the video merger: VideoProcessor (video_processor.py) and    *)
(* the /cleanup handler (app.py).                                          *)
(*                                                                         *)
(* create_video is modelled step by step: one action per external call it  *)
(* makes (ffmpeg -version, os.path.exists, ffprobe, os.makedirs, ffmpeg),  *)
(* with the external tools and the filesystem as the environment.          *)
(***************************************************************************)
EXTENDS Integers, Sequences, FiniteSets, TLC

\* ------------------------------------------------------------- bounds ----
MaxStreams == 2          \* streams reported by one ffprobe run
MaxDelta == 1            \* probed sizes range over default .. default + MaxDelta
MaxSkew == 1             \* the clock reads 0..MaxSkew past 0 and past the threshold

\* ---------------------------------------------------- program constants --
default_width == 1280
default_height == 720
cleanup_threshold == 3600

\* ------------------------------------------------------------ values -----
\* Python's None, and a present value, as sequences of integers.
None == <<>>
EmptyObj == [k \in {} |-> ""]

UPLOAD_FOLDER == "uploads"
OUTPUT_FOLDER == "output"

\* A path is its directory part and its file name: os.path.dirname is .dir.
Path(d, n) == [dir |-> d, name |-> n]
NoPath == Path("", "")
ImagePaths == {Path(UPLOAD_FOLDER, "a.png")}
AudioPaths == {Path(UPLOAD_FOLDER, "a.mp3")}
OutputPaths == {Path(OUTPUT_FOLDER, "v.mp4"), Path("new", "v.mp4"), Path("", "v.mp4")}

\* What `ffmpeg -version` / `ffmpeg ...` meets when the process is spawned.
ToolStates == {"ok", "broken", "missing", "noexec"}

SeqsUpTo(S, n) == UNION {[1..k -> S] : k \in 0..n}

VARIABLES
    \* the environment
    ffmpeg,        \* state of the ffmpeg executable, one of ToolStates
    files,         \* the files that exist: path -> size
    dirs,          \* the directories that exist
    \* create_video: position, arguments, locals, return value
    pc, image_path, audio_path, output_path,
    probe_out,     \* result of the audio ffprobe run, until it is parsed
    duration, width, height,
    probed,        \* what get_image_dimensions returned
    cmd,           \* the ffmpeg command line handed to subprocess.run
    returncode, stderr,
    ret,           \* the (success, message) create_video returned
    calls,         \* the external calls the current create_video has made
    \* the /cleanup handler
    now,           \* time.time()
    folder,        \* folder -> (file name -> os.path.getctime of the entry)
    cleaned,       \* the "Cleaned up ... file" lines the last sweep logged
    response,      \* the status the last sweep returned
    \* cleanup_file: position, argument, return value, logged error
    rm_pc, file_path, rm_ret, rm_logged

compose_vars == <<ffmpeg, files, dirs, pc, image_path, audio_path, output_path,
                  probe_out, duration, width, height, probed, cmd,
                  returncode, stderr, ret, calls>>
sweep_vars == <<now, folder, cleaned, response>>
remove_vars == <<rm_pc, file_path, rm_ret, rm_logged>>

vars == <<compose_vars, sweep_vars, remove_vars>>

\* ------------------------------------------------------ return values ----
Ret(ok, msg, p, rc, err, exc) ==
    [success |-> ok, message |-> msg, path |-> p, returncode |-> rc,
     stderr |-> err, exc |-> exc]
NoRet == Ret(FALSE, "", NoPath, 0, "", "")
NoCmd == [scale |-> None, t |-> None, image |-> NoPath, audio |-> NoPath,
          output |-> NoPath]
NoProbe == [exc |-> "", json_ok |-> FALSE, data |-> EmptyObj]

Failure(msg) == Ret(FALSE, msg, NoPath, 0, "", "")
reraise(exc) == Ret(FALSE, "", NoPath, 0, "", exc)
\* video_processor.py:178-180: `except Exception` turns what was raised into
\* a returned failure.
handle_exception(exc) == Ret(FALSE, "Unexpected error", NoPath, 0, "", exc)

\* ------------------------------------------------------- check_ffmpeg ----
\* subprocess.run(['ffmpeg', '-version'], check=True) for each tool state.
run_version(tool) ==
    CASE tool = "ok" -> "exit0"
      [] tool = "broken" -> "CalledProcessError"
      [] tool = "missing" -> "FileNotFoundError"
      [] tool = "noexec" -> "PermissionError"

check_ffmpeg_cached(tool) == "True"

\* "True", "False", or the name of the exception that escapes.
check_ffmpeg(tool) ==
    LET r == run_version(tool) IN
    IF r = "exit0" THEN "True"
    ELSE IF r \in {"CalledProcessError", "FileNotFoundError"} THEN "False"
    ELSE r

\* ------------------------------------------------- get_audio_duration ----
\* The duration texts ffprobe prints: one that float() parses, one it rejects.
DurationTexts == {"7", "N/A"}
CanFloat(t) == t = "7"
float(t) == CASE t = "7" -> 7

AudioStreamObjs ==
    {[codec_type |-> "audio"]}
      \cup {[codec_type |-> "audio", duration |-> t] : t \in DurationTexts}
FormatObjs == {EmptyObj} \cup {[duration |-> t] : t \in DurationTexts}
AudioJson ==
    {f @@ s : f \in {EmptyObj} \cup {[format |-> o] : o \in FormatObjs},
              s \in {EmptyObj} \cup
                    {[streams |-> q] : q \in SeqsUpTo(AudioStreamObjs, MaxStreams)}}
\* What running ffprobe on the audio gives: an exception of subprocess.run,
\* or a stdout that json.loads rejects, or parsed JSON.
AudioProbeOutputs ==
    {[exc |-> e, json_ok |-> FALSE, data |-> EmptyObj] :
        e \in {"CalledProcessError", "FileNotFoundError", ""}}
      \cup {[exc |-> "", json_ok |-> TRUE, data |-> d] : d \in AudioJson}

\* float(x) inside the try: a ValueError is caught by `except Exception`.
float_or_none(t) == IF CanFloat(t) THEN <<float(t)>> ELSE None

RECURSIVE stream_duration(_)
\* video_processor.py:38-41, then 43-44 when the loop ends
stream_duration(streams) ==
    IF streams = <<>> THEN None
    ELSE IF "duration" \in DOMAIN Head(streams)
         THEN float_or_none(Head(streams).duration)
         ELSE stream_duration(Tail(streams))

get_audio_duration_zero(out) == <<0>>

get_audio_duration(out) ==
    IF out.exc # "" THEN None
    ELSE IF ~out.json_ok THEN None
    ELSE LET probe_data == out.data IN
         IF "format" \in DOMAIN probe_data
              /\ "duration" \in DOMAIN probe_data.format
         THEN float_or_none(probe_data.format.duration)
         ELSE IF "streams" \in DOMAIN probe_data /\ Len(probe_data.streams) > 0
         THEN stream_duration(probe_data.streams)
         ELSE None

\* ----------------------------------------------- get_image_dimensions ----
Widths == {1} \cup {default_width + i : i \in 0..MaxDelta}
Heights == {1} \cup {default_height + i : i \in 0..MaxDelta}

ImageStreamObjs ==
    {[codec_type |-> "audio"], [codec_type |-> "video"]}
      \cup {[codec_type |-> "video", width |-> w, height |-> h] :
               w \in Widths \cup {0}, h \in Heights \cup {0}}
ImageJson ==
    {EmptyObj} \cup {[streams |-> q] : q \in SeqsUpTo(ImageStreamObjs, MaxStreams)}
ImageProbeOutputs ==
    {[exc |-> e, json_ok |-> FALSE, data |-> EmptyObj] :
        e \in {"CalledProcessError", "FileNotFoundError", ""}}
      \cup {[exc |-> "", json_ok |-> TRUE, data |-> d] : d \in ImageJson}

\* stream.get(key, 0)
get(stream, key) == IF key \in DOMAIN stream THEN stream[key] ELSE 0

RECURSIVE stream_dimensions(_)
\* video_processor.py:69-74, then 76-77 when the loop ends
stream_dimensions(streams) ==
    IF streams = <<>> THEN None
    ELSE LET stream == Head(streams) IN
         IF "codec_type" \in DOMAIN stream /\ stream.codec_type = "video"
              /\ get(stream, "width") > 0 /\ get(stream, "height") > 0
         THEN <<get(stream, "width"), get(stream, "height")>>
         ELSE stream_dimensions(Tail(streams))

get_image_dimensions(out) ==
    IF out.exc # "" THEN None
    ELSE IF ~out.json_ok THEN None
    ELSE IF "streams" \in DOMAIN out.data THEN stream_dimensions(out.data.streams)
    ELSE None

\* ------------------------------------------------------- create_video ----
Exists(p) == p \in DOMAIN files
Put(f, q, size) == [p \in DOMAIN f \cup {q} |-> IF p = q THEN size ELSE f[p]]
Del(f, q) == [p \in DOMAIN f \ {q} |-> f[p]]

tool_missing == Failure("FFmpeg is not installed or not available")
image_not_found_unnamed(p) == Failure("Image file not found")
image_not_found(p) == Ret(FALSE, "Image file not found", p, 0, "", "")
audio_not_found(p) == Ret(FALSE, "Audio file not found", p, 0, "", "")
probe_failed == Failure("Could not determine audio duration")
ffmpeg_failed(rc, err) == Ret(FALSE, "FFmpeg failed with return code", NoPath, rc, err, "")
output_missing == Failure("Output file was not created or is empty")
created == Ret(TRUE, "Video created successfully", NoPath, 0, "", "")

dimensions_or_default_hd(wh) == IF wh = None THEN <<1920, 1080>> ELSE wh
\* video_processor.py:124-126
dimensions_or_default(wh) ==
    IF wh = None THEN <<default_width, default_height>> ELSE wh

even_up(n) == n + (n % 2)
\* video_processor.py:130-131
even_down(n) == n - (n % 2)

output_ok_exists(f, p) == p \in DOMAIN f
output_ok_never(f, p) == FALSE
\* video_processor.py:167
output_ok(f, p) == p \in DOMAIN f /\ f[p] > 0

Finish(r) == /\ pc' = "done"
             /\ ret' = r

Locals == <<probe_out, duration, width, height, probed, cmd, returncode, stderr>>
Args == <<image_path, audio_path, output_path>>
Env == <<ffmpeg, files, dirs>>

\* A caller (app.py:104, app.py:219, or any other) calls create_video.
Call(image, audio, output) ==
    /\ UNCHANGED <<sweep_vars, remove_vars>>
    /\ pc = "idle"
    /\ image_path' = image
    /\ audio_path' = audio
    /\ output_path' = output
    /\ pc' = "check_ffmpeg"
    /\ UNCHANGED <<Env, Locals, ret, calls>>

\* video_processor.py:105-106
CheckFfmpeg ==
    /\ UNCHANGED <<sweep_vars, remove_vars>>
    /\ pc = "check_ffmpeg"
    /\ calls' = Append(calls, "ffmpeg -version")
    /\ LET available == check_ffmpeg(ffmpeg) IN
       CASE available = "True" -> pc' = "exists_image" /\ UNCHANGED ret
         [] available = "False" -> Finish(tool_missing)
         [] OTHER -> Finish(handle_exception(available))
    /\ UNCHANGED <<Env, Args, Locals>>

\* video_processor.py:109-110
ExistsImage ==
    /\ UNCHANGED <<sweep_vars, remove_vars>>
    /\ pc = "exists_image"
    /\ calls' = Append(calls, "exists(image_path)")
    /\ IF ~Exists(image_path)
       THEN Finish(image_not_found(image_path))
       ELSE pc' = "exists_audio" /\ UNCHANGED ret
    /\ UNCHANGED <<Env, Args, Locals>>

\* video_processor.py:112-113
ExistsAudio ==
    /\ UNCHANGED <<sweep_vars, remove_vars>>
    /\ pc = "exists_audio"
    /\ calls' = Append(calls, "exists(audio_path)")
    /\ IF ~Exists(audio_path)
       THEN Finish(audio_not_found(audio_path))
       ELSE pc' = "run_audio_probe" /\ UNCHANGED ret
    /\ UNCHANGED <<Env, Args, Locals>>

\* video_processor.py:116 calling 26-30: ffprobe runs on the audio file.
RunAudioProbe ==
    /\ UNCHANGED <<sweep_vars, remove_vars>>
    /\ pc = "run_audio_probe"
    /\ calls' = Append(calls, "ffprobe(audio_path)")
    /\ \E out \in AudioProbeOutputs : probe_out' = out
    /\ pc' = "parse_audio_probe"
    /\ UNCHANGED <<Env, Args, duration, width, height, probed, cmd, returncode,
                   stderr, ret>>

\* video_processor.py:31-54, then 116-118
ParseAudioProbe ==
    /\ UNCHANGED <<sweep_vars, remove_vars>>
    /\ pc = "parse_audio_probe"
    /\ duration' = get_audio_duration(probe_out)
    /\ probe_out' = NoProbe
    /\ IF duration' = None
       THEN Finish(probe_failed)
       ELSE pc' = "probe_image" /\ UNCHANGED ret
    /\ UNCHANGED <<Env, Args, width, height, probed, cmd, returncode, stderr, calls>>

\* video_processor.py:123 calling 56-87
ProbeImage ==
    /\ UNCHANGED <<sweep_vars, remove_vars>>
    /\ pc = "probe_image"
    /\ calls' = Append(calls, "ffprobe(image_path)")
    /\ \E out \in ImageProbeOutputs : probed' = get_image_dimensions(out)
    /\ pc' = "normalize"
    /\ UNCHANGED <<Env, Args, probe_out, duration, width, height, cmd, returncode,
                   stderr, ret>>

\* video_processor.py:124-131
Normalize ==
    /\ UNCHANGED <<sweep_vars, remove_vars>>
    /\ pc = "normalize"
    /\ LET wh == dimensions_or_default(probed) IN
         /\ width' = even_down(wh[1])
         /\ height' = even_down(wh[2])
    /\ pc' = "makedirs"
    /\ UNCHANGED <<Env, Args, probe_out, duration, probed, cmd, returncode, stderr,
                   ret, calls>>

\* video_processor.py:136: os.makedirs(os.path.dirname(output_path), exist_ok=True)
MakeDirs ==
    /\ UNCHANGED <<sweep_vars, remove_vars>>
    /\ pc = "makedirs"
    /\ calls' = Append(calls, "makedirs")
    /\ LET d == output_path.dir IN
       \/ /\ d = ""                       \* os.makedirs('') raises
          /\ Finish(handle_exception("FileNotFoundError"))
          /\ UNCHANGED dirs
       \/ /\ d # "" /\ d \in dirs         \* exist_ok=True
          /\ pc' = "run_ffmpeg"
          /\ UNCHANGED <<dirs, ret>>
       \/ /\ d # "" /\ d \notin dirs      \* created
          /\ dirs' = dirs \cup {d}
          /\ pc' = "run_ffmpeg"
          /\ UNCHANGED ret
       \/ /\ d # "" /\ d \notin dirs      \* cannot be created
          /\ Finish(handle_exception("PermissionError"))
          /\ UNCHANGED dirs
    /\ UNCHANGED <<ffmpeg, files, Args, Locals>>

\* video_processor.py:139-157
RunFfmpeg ==
    /\ UNCHANGED <<sweep_vars, remove_vars>>
    /\ pc = "run_ffmpeg"
    /\ calls' = Append(calls, "ffmpeg")
    /\ cmd' = [scale |-> <<width, height>>, t |-> duration, image |-> image_path,
               audio |-> audio_path, output |-> output_path]
    /\ \/ /\ ffmpeg \in {"missing", "noexec"}     \* the process cannot be spawned
          /\ Finish(handle_exception(run_version(ffmpeg)))
          /\ UNCHANGED <<files, returncode, stderr>>
       \/ /\ ffmpeg \in {"ok", "broken"}
          /\ \E rc \in {0, 1}, err \in {"", "Conversion failed!"} :
                /\ returncode' = rc
                /\ stderr' = err
          /\ \/ UNCHANGED files                            \* nothing written
             \/ \E size \in {0, 1} : files' = Put(files, output_path, size)
          /\ pc' = "verify"
          /\ UNCHANGED ret
    /\ UNCHANGED <<ffmpeg, dirs, Args, probe_out, duration, width, height, probed>>

\* video_processor.py:159-171
Verify ==
    /\ UNCHANGED <<sweep_vars, remove_vars>>
    /\ pc = "verify"
    /\ IF returncode # 0
       THEN Finish(ffmpeg_failed(returncode, stderr))
       ELSE IF output_ok(files, output_path)
       THEN Finish(created)
       ELSE Finish(output_missing)
    /\ UNCHANGED <<Env, Args, Locals, calls>>

\* create_video has returned; the locals are gone, the next call may start.
Return ==
    /\ UNCHANGED <<sweep_vars, remove_vars>>
    /\ pc = "done"
    /\ pc' = "idle"
    /\ image_path' = NoPath /\ audio_path' = NoPath /\ output_path' = NoPath
    /\ probe_out' = NoProbe
    /\ duration' = None /\ probed' = None
    /\ width' = 0 /\ height' = 0
    /\ cmd' = NoCmd
    /\ returncode' = 0 /\ stderr' = ""
    /\ ret' = NoRet
    /\ calls' = <<>>
    /\ UNCHANGED Env

\* ---------------------------------------------------- the environment ----
\* The ffmpeg executable is installed, removed or broken at any time.
SetTool(t) ==
    /\ UNCHANGED <<sweep_vars, remove_vars>>
    /\ ffmpeg # t
    /\ ffmpeg' = t
    /\ UNCHANGED <<files, dirs, pc, Args, Locals, ret, calls>>

\* The caller saves an input file before composing (app.py:97-98, 209-210).
SaveInput(p) ==
    /\ UNCHANGED <<sweep_vars, remove_vars>>
    /\ pc = "idle"
    /\ ~Exists(p)
    /\ files' = Put(files, p, 1)
    /\ UNCHANGED <<ffmpeg, dirs, pc, Args, Locals, ret, calls>>

\* An input file is removed (the /cleanup sweep, app.py:169).
RemoveInput(p) ==
    /\ UNCHANGED <<sweep_vars, remove_vars>>
    /\ pc = "idle"
    /\ Exists(p)
    /\ files' = Del(files, p)
    /\ UNCHANGED <<ffmpeg, dirs, pc, Args, Locals, ret, calls>>

ComposeInit ==
    /\ ffmpeg \in ToolStates
    /\ files = EmptyObj
    /\ dirs = {UPLOAD_FOLDER, OUTPUT_FOLDER}          \* app.py:31-32
    /\ pc = "idle"
    /\ image_path = NoPath /\ audio_path = NoPath /\ output_path = NoPath
    /\ probe_out = NoProbe
    /\ duration = None /\ probed = None
    /\ width = 0 /\ height = 0
    /\ cmd = NoCmd
    /\ returncode = 0 /\ stderr = ""
    /\ ret = NoRet
    /\ calls = <<>>

ComposeNext ==
    \/ \E i \in ImagePaths, a \in AudioPaths, o \in OutputPaths : Call(i, a, o)
    \/ CheckFfmpeg
    \/ ExistsImage
    \/ ExistsAudio
    \/ RunAudioProbe
    \/ ParseAudioProbe
    \/ ProbeImage
    \/ Normalize
    \/ MakeDirs
    \/ RunFfmpeg
    \/ Verify
    \/ Return
    \/ \E t \in ToolStates : SetTool(t)
    \/ \E p \in ImagePaths \cup AudioPaths : SaveInput(p)
    \/ \E p \in ImagePaths \cup AudioPaths : RemoveInput(p)

\* ------------------------------------------------ /cleanup (the sweep) ----
Folders == {UPLOAD_FOLDER, OUTPUT_FOLDER}
PLACEHOLDER == ".gitkeep"
SavedNames(f) == IF f = UPLOAD_FOLDER THEN {"a.png", "a.mp3"} ELSE {"v.mp4"}
Clock == (0..MaxSkew) \cup (cleanup_threshold..(cleanup_threshold + MaxSkew))

\* os.listdir returns the entries in arbitrary order.
Listings(S) ==
    {q \in [1..Cardinality(S) -> S] : \A i, j \in DOMAIN q : i # j => q[i] # q[j]}

is_stale_inclusive(ctime, current_time) == ctime <= current_time - cleanup_threshold
\* app.py:168, app.py:177
is_stale(ctime, current_time) == ctime < current_time - cleanup_threshold

\* app.py:165, app.py:174
is_placeholder(filename) == filename = PLACEHOLDER

RECURSIVE sweep_folder(_, _, _, _, _)
\* One of the two loops of cleanup_files (app.py:164-170, 173-179) over
\* `listing`; `raising` are the entries on which getctime or remove raises.
\* st = [entries, cleaned, error]; the loop stops at the first error.
sweep_folder(f, listing, st, current_time, raising) ==
    IF listing = <<>> \/ st.error THEN st
    ELSE LET filename == Head(listing) IN
         IF is_placeholder(filename)
         THEN sweep_folder(f, Tail(listing), st, current_time, raising)
         ELSE IF filename \in raising
         THEN [st EXCEPT !.error = TRUE]
         ELSE IF is_stale(st.entries[filename], current_time)
         THEN sweep_folder(f, Tail(listing),
                  [st EXCEPT !.entries = Del(st.entries, filename),
                             !.cleaned = @ \cup {[folder |-> f, name |-> filename,
                                                  ctime |-> st.entries[filename],
                                                  at |-> current_time]}],
                  current_time, raising)
         ELSE sweep_folder(f, Tail(listing), st, current_time, raising)

\* app.py:157-185, the whole handler
cleanup_files ==
    /\ UNCHANGED <<compose_vars, remove_vars>>
    /\ \E uploads \in Listings(DOMAIN folder[UPLOAD_FOLDER]),
          outputs \in Listings(DOMAIN folder[OUTPUT_FOLDER]),
          raising \in SUBSET (SavedNames(UPLOAD_FOLDER) \cup SavedNames(OUTPUT_FOLDER)) :
         LET current_time == now
             s0 == [entries |-> folder[UPLOAD_FOLDER], cleaned |-> {}, error |-> FALSE]
             s1 == sweep_folder(UPLOAD_FOLDER, uploads, s0, current_time, raising)
             s2 == sweep_folder(OUTPUT_FOLDER, outputs,
                                [s1 EXCEPT !.entries = folder[OUTPUT_FOLDER]],
                                current_time, raising)
         IN /\ folder' = [folder EXCEPT ![UPLOAD_FOLDER] = s1.entries,
                                        ![OUTPUT_FOLDER] = s2.entries]
            /\ cleaned' = s2.cleaned
            /\ response' = IF s2.error THEN "error" ELSE "success"
    /\ UNCHANGED now

\* A request saves a file into a folder (app.py:97-98, 209-210; ffmpeg's output).
SaveFile(f, n) ==
    /\ UNCHANGED <<compose_vars, remove_vars>>
    /\ n \notin DOMAIN folder[f]
    /\ folder' = [folder EXCEPT ![f] = Put(@, n, now)]
    /\ UNCHANGED <<now, cleaned, response>>

\* Time passes.
Advance(d) ==
    /\ UNCHANGED <<compose_vars, remove_vars>>
    /\ now + d \in Clock
    /\ now' = now + d
    /\ UNCHANGED <<folder, cleaned, response>>

SweepInit ==
    /\ now = 0
    /\ folder = [f \in Folders |-> [n \in {PLACEHOLDER} |-> 0]]
    /\ cleaned = {}
    /\ response = ""

SweepNext ==
    \/ cleanup_files
    \/ \E f \in Folders : \E n \in SavedNames(f) : SaveFile(f, n)
    \/ \E d \in {1, cleanup_threshold} : Advance(d)

\* ------------------------------------------------------- cleanup_file ----
RemovePaths == ImagePaths \cup AudioPaths \cup OutputPaths
compose_rest == <<ffmpeg, dirs, pc, image_path, audio_path, output_path,
                  probe_out, duration, width, height, probed, cmd,
                  returncode, stderr, ret, calls>>

on_remove_error_raise(exc) == [ret |-> "raised", logged |-> ""]
\* video_processor.py:189-191
on_remove_error(exc) == [ret |-> "False", logged |-> exc]

RmCall(p) ==
    /\ UNCHANGED <<compose_rest, sweep_vars>>
    /\ rm_pc = "idle"
    /\ file_path' = p
    /\ rm_pc' = "exists"
    /\ UNCHANGED <<files, rm_ret, rm_logged>>

\* video_processor.py:185, and 191 when the file is not there
RmExists ==
    /\ UNCHANGED <<compose_rest, sweep_vars>>
    /\ rm_pc = "exists"
    /\ IF Exists(file_path)
       THEN rm_pc' = "remove" /\ UNCHANGED rm_ret
       ELSE rm_pc' = "done" /\ rm_ret' = "False"
    /\ UNCHANGED <<files, file_path, rm_logged>>

\* video_processor.py:186-191
RmRemove ==
    /\ UNCHANGED <<compose_rest, sweep_vars>>
    /\ rm_pc = "remove"
    /\ rm_pc' = "done"
    /\ \/ /\ Exists(file_path)                       \* os.remove succeeds
          /\ files' = Del(files, file_path)
          /\ rm_ret' = "True"
          /\ UNCHANGED rm_logged
       \/ /\ Exists(file_path)                       \* os.remove is refused
          /\ LET r == on_remove_error("PermissionError") IN
               rm_ret' = r.ret /\ rm_logged' = r.logged
          /\ UNCHANGED files
       \/ /\ ~Exists(file_path)                      \* the file has vanished
          /\ LET r == on_remove_error("FileNotFoundError") IN
               rm_ret' = r.ret /\ rm_logged' = r.logged
          /\ UNCHANGED files
    /\ UNCHANGED file_path

RmReturn ==
    /\ UNCHANGED <<compose_rest, sweep_vars>>
    /\ rm_pc = "done"
    /\ rm_pc' = "idle"
    /\ file_path' = NoPath
    /\ rm_ret' = ""
    /\ rm_logged' = ""
    /\ UNCHANGED files

\* Another actor creates or deletes a file at any time.
OtherCreates(p) ==
    /\ UNCHANGED <<compose_rest, sweep_vars, remove_vars>>
    /\ ~Exists(p)
    /\ files' = Put(files, p, 1)

OtherDeletes(p) ==
    /\ UNCHANGED <<compose_rest, sweep_vars, remove_vars>>
    /\ Exists(p)
    /\ files' = Del(files, p)

RemoveInit ==
    /\ rm_pc = "idle"
    /\ file_path = NoPath
    /\ rm_ret = ""
    /\ rm_logged = ""

RemoveNext ==
    \/ \E p \in RemovePaths : RmCall(p)
    \/ RmExists
    \/ RmRemove
    \/ RmReturn
    \/ \E p \in RemovePaths : OtherCreates(p)
    \/ \E p \in RemovePaths : OtherDeletes(p)

\* ----------------------------------------------------- specifications ----
Init == ComposeInit /\ SweepInit /\ RemoveInit
SpecCompose == Init /\ [][ComposeNext]_vars
SpecSweep == Init /\ [][SweepNext]_vars
SpecRemove == Init /\ [][RemoveNext]_vars

\* ============================================================ claims =====
Called(c) == \E i \in DOMAIN calls : calls[i] = c
\* The ffmpeg process of this call ran to its exit (it was spawned).
FfmpegExited == pc = "done" /\ Called("ffmpeg") /\ ret.message # "Unexpected error"
OutputPresent == Exists(output_path) /\ files[output_path] > 0

\* C1: whenever create_video returns success, the output path exists and its
\* size is greater than zero at the moment of return.
C1_SuccessHasOutput ==
    (pc = "done" /\ ret.success) =>
        (output_path \in DOMAIN files /\ files[output_path] > 0)
C1_Witness ==
    pc = "done" /\ ret = created /\ FfmpegExited /\ OutputPresent

\* C2 as stated: both input files exist and the transcode tool exits with
\* code 0, so create_video returns success.
C2_Original ==
    (FfmpegExited /\ returncode = 0 /\ Exists(image_path) /\ Exists(audio_path))
        => ret.success
\* C2 amended: both input files exist, the transcode tool is run, exits with
\* code 0 and the output file then exists with size > 0, so create_video
\* returns success.
C2_SuccessWhenOutputWritten ==
    (FfmpegExited /\ returncode = 0 /\ Exists(image_path) /\ Exists(audio_path)
       /\ OutputPresent)
        => ret = created
C2_Witness ==
    /\ FfmpegExited /\ returncode = 0 /\ Exists(image_path) /\ Exists(audio_path)
    /\ OutputPresent /\ ret.success
    /\ cmd.image = image_path /\ cmd.audio = audio_path /\ cmd.output = output_path

\* C3: the availability check is the first call of every create_video and is
\* made against the tool as it is now; when the tool is absent the call
\* returns "FFmpeg is not installed or not available" having made no other
\* call (no existence check, no probe, no makedirs, no transcode).
C3_ToolCheckedFirst ==
    /\ [](calls # <<>> => calls[1] = "ffmpeg -version")
    /\ [](pc \notin {"idle", "check_ffmpeg"} => calls # <<>>)
    /\ [](ret.message = tool_missing.message => calls = <<"ffmpeg -version">>)
    /\ [][(pc = "check_ffmpeg" /\ pc' # "check_ffmpeg"
             /\ ffmpeg \in {"missing", "broken"})
            => (pc' = "done" /\ ret' = tool_missing
                  /\ calls' = <<"ffmpeg -version">>)]_vars
    /\ [][(pc = "check_ffmpeg" /\ pc' # "check_ffmpeg" /\ ffmpeg = "ok")
            => pc' = "exists_image"]_vars
\* An earlier call found the tool and ran it; this one finds it missing.
C3_Witness ==
    /\ pc = "done" /\ ret = tool_missing /\ ffmpeg = "missing"
    /\ \E o \in OutputPaths : o \in DOMAIN files

\* C4: with the tool available, a missing image or audio file makes the call
\* return "... file not found" naming the missing path (the image when the
\* image is missing, the audio when only the audio is missing), and ffmpeg
\* is not run.
C4_InputNotFound ==
    /\ (pc = "done" /\ Called("exists(image_path)") /\ ~Exists(image_path))
          => ret = Ret(FALSE, "Image file not found", image_path, 0, "", "")
    /\ (pc = "done" /\ Called("exists(image_path)") /\ Exists(image_path)
          /\ ~Exists(audio_path))
          => ret = Ret(FALSE, "Audio file not found", audio_path, 0, "", "")
    /\ (pc # "idle" /\ (~Exists(image_path) \/ ~Exists(audio_path)))
          => (~Called("ffmpeg") /\ ~Called("ffprobe(audio_path)")
                /\ ~Called("makedirs"))
    /\ ret.message = "Image file not found"
          => (ret.path = image_path /\ ~Exists(image_path))
    /\ ret.message = "Audio file not found"
          => (ret.path = audio_path /\ ~Exists(audio_path) /\ Exists(image_path))
C4_Witness ==
    /\ pc = "done" /\ ret.message = "Audio file not found"
    /\ ret.path = audio_path /\ Exists(image_path) /\ ~Exists(audio_path)

\* The probe outcomes the claim lists: non-zero probe exit, malformed probe
\* output, no duration field at format or stream level.
NoDurationField(data) ==
    /\ ~("format" \in DOMAIN data /\ "duration" \in DOMAIN data.format)
    /\ ~("streams" \in DOMAIN data
           /\ \E i \in DOMAIN data.streams : "duration" \in DOMAIN data.streams[i])
ListedProbeFailure(out) ==
    \/ out.exc = "CalledProcessError"
    \/ out.exc = "" /\ ~out.json_ok
    \/ out.exc = "" /\ out.json_ok /\ NoDurationField(out.data)

\* C5: when the audio probe fails, create_video returns "Could not determine
\* audio duration" (not an exception), and neither the image probe nor
\* makedirs nor ffmpeg is called.
C5_AudioProbeFatal ==
    /\ [][(pc = "parse_audio_probe" /\ pc' # "parse_audio_probe"
             /\ ListedProbeFailure(probe_out))
            => (duration' = None /\ pc' = "done" /\ ret' = probe_failed)]_vars
    /\ []((pc = "done" /\ Called("ffprobe(audio_path)") /\ duration = None)
            => (/\ ret = probe_failed
                /\ calls[Len(calls)] = "ffprobe(audio_path)"))
    /\ [](ret.message = probe_failed.message
            => (/\ ~Called("ffprobe(image_path)")
                /\ ~Called("makedirs")
                /\ ~Called("ffmpeg")))
C5_Witness ==
    /\ pc = "done" /\ ret = probe_failed /\ duration = None
    /\ calls = <<"ffmpeg -version", "exists(image_path)", "exists(audio_path)",
                 "ffprobe(audio_path)">>

ImageProbeFailed == Called("ffprobe(image_path)") /\ probed = None

FiveReasons ==
    {"FFmpeg is not installed or not available",
     "Image file not found", "Audio file not found",
     "Could not determine audio duration",
     "FFmpeg failed with return code",
     "Output file was not created or is empty"}

Normalized == pc \in {"makedirs", "run_ffmpeg", "verify"}
                 \/ (pc = "done" /\ Called("makedirs"))
RoundedDown(n, m) ==
    /\ m % 2 = 0
    /\ n - 1 <= m /\ m <= n
    /\ m = n - 1 <=> n % 2 = 1

\* C8: the normalized width and height are the probed ones rounded down to
\* the nearest even number; normalizing them again changes nothing; and the
\* scale given to ffmpeg is the normalized pair.
C8_EvenDimensions ==
    /\ (Normalized /\ probed # None)
          => /\ RoundedDown(probed[1], width)
             /\ RoundedDown(probed[2], height)
    /\ Normalized
          => /\ width % 2 = 0 /\ height % 2 = 0
             /\ even_down(width) = width /\ even_down(height) = height
    /\ (Normalized /\ probed = <<1281, 721>>) => <<width, height>> = <<1280, 720>>
    /\ (Normalized /\ probed = <<1280, 720>>) => <<width, height>> = <<1280, 720>>
    /\ Called("ffmpeg") => cmd.scale = <<width, height>>
C8_Witness ==
    /\ Called("ffmpeg") /\ probed = <<1281, 721>>
    /\ cmd.scale = <<1280, 720>>

\* C9: a sweep deletes only entries that are not the placeholder and whose
\* creation time is older than now - 3600; the placeholder stays whatever its
\* age; an error in the sweep becomes the returned status "error".
C9_SweepDeletesOnlyStale ==
    /\ \A d \in cleaned :
          /\ d.name # ".gitkeep"
          /\ d.ctime < d.at - 3600
          /\ d.name \notin DOMAIN folder[d.folder] \/ folder[d.folder][d.name] >= d.at
    /\ \A f \in Folders : ".gitkeep" \in DOMAIN folder[f]
    /\ response \in {"", "success", "error"}
C9_Witness ==
    /\ cleaned # {}
    /\ response = "error"
    /\ \A f \in Folders : folder[f][".gitkeep"] < now - 3600

\* C10: cleanup_file never raises; on a path that does not exist it returns
\* False and logs nothing; when it returns True the file was there and is
\* gone, so the same call repeated at once returns False; an error of
\* os.remove is logged and the call returns False.
C10_RemoveIsSafe ==
    /\ [](rm_ret \in {"", "True", "False"})
    /\ [](rm_pc = "done" <=> rm_ret # "")
    /\ [](rm_logged # "" => rm_ret = "False")
    /\ [][(rm_pc = "exists" /\ ~Exists(file_path) /\ rm_pc' # "exists")
            => (rm_pc' = "done" /\ rm_ret' = "False" /\ rm_logged' = ""
                  /\ files' = files)]_vars
    /\ [][(rm_ret # "True" /\ rm_ret' = "True")
            => (file_path \in DOMAIN files /\ file_path \notin DOMAIN files'
                  /\ rm_logged' = "")]_vars
    /\ [][(rm_pc = "remove" /\ rm_pc' = "done" /\ rm_ret' = "False")
            => (rm_logged' # "" /\ files' = files)]_vars
C10_Witness ==
    /\ rm_pc = "done" /\ rm_ret = "False" /\ rm_logged = "FileNotFoundError"
    /\ ~Exists(file_path)

====
